---- MODULE Spec2Model ----
(***************************************************************************)
(* The product table of the catalogue application (ProductTable, the       *)
(* component of src/unnamed/part_004 that ProductsPage mounts).            *)
(*                                                                         *)
(* The component holds three pieces of React state (sorting,               *)
(* columnFilters, globalFilter), receives the collection as the prop       *)
(* `products`, and hands all four to useReactTable of                      *)
(* @tanstack/react-table (v8), which also owns the pagination state.  The  *)
(* operators below follow the table instance the component configures:     *)
(* each one carries the name of the table or column method the component   *)
(* calls, and computes what that method computes under the options the     *)
(* component passes (client-side row models, no manual pagination, no      *)
(* pageCount/rowCount option, automatic filter and sorting functions       *)
(* except `filterFn: 'equals'` on the category column).                    *)
(*                                                                         *)
(* Text is a sequence of one-character strings, so that substring search,  *)
(* lower-casing and code-unit comparison are computed, not assumed.        *)
(* Numbers are naturals (whole prices); Number.prototype.toString is the   *)
(* decimal rendering.                                                      *)
(***************************************************************************)
EXTENDS Integers, Sequences, FiniteSets, TLC

VARIABLES
    products,       \* the prop `products` (data of the table)
    sorting,        \* useState<SortingState>([])
    columnFilters,  \* useState<ColumnFiltersState>([])
    globalFilter,   \* useState('')
    pagination,     \* the table's own state: [pageIndex, pageSize]
    lastOp,         \* history: the last gesture, the page index it started
                    \* from and, for a header click, the sorting it found
    NODE_ENV,       \* process.env.NODE_ENV
    db,             \* the collection of the backend (db.json)
    route,          \* the page shown: [page, productId]
    queryCache,     \* the queries of the QueryClient, by query key
    mutationCache,  \* the mutations of the QueryClient, oldest first
    mutationId,     \* MutationCache's count of the mutations it has built
    faults,         \* how many requests the backend has failed
    form            \* the state of useForm in ProductForm while SpecForm
                    \* follows it, in a sequence; empty otherwise

tableVars ==
    <<products, sorting, columnFilters, globalFilter, pagination, lastOp>>

appVars ==
    <<NODE_ENV, db, route, queryCache, mutationCache, mutationId, faults,
      form>>

vars == <<tableVars, appVars>>

----------------------------------------------------------------------------
(* Bounds of the model *)

\* the largest collection the data-fetch layer hands to the table
MaxRecords == 11

\* initialState.pagination.pageSize
PageSize == 5

\* the most mutations the pages start
MaxMutations == 1

\* the most requests the backend fails
MaxFaults == 1

----------------------------------------------------------------------------
(* Text *)

Max(a, b) == IF a > b THEN a ELSE b

Min(a, b) == IF a < b THEN a ELSE b

UpperCase ==
    <<"A","B","C","D","E","F","G","H","I","J","K","L","M",
      "N","O","P","Q","R","S","T","U","V","W","X","Y","Z">>

LowerCase ==
    <<"a","b","c","d","e","f","g","h","i","j","k","l","m",
      "n","o","p","q","r","s","t","u","v","w","x","y","z">>

Digits == <<"0","1","2","3","4","5","6","7","8","9">>

\* the characters of the model's texts
Chars ==
    {UpperCase[i] : i \in 1..Len(UpperCase)}
        \cup {LowerCase[i] : i \in 1..Len(LowerCase)}
        \cup {Digits[i] : i \in 1..Len(Digits)}
        \cup {"-"}

\* index of character c in the table t, 0 when absent
IndexIn(t, c) ==
    IF \E i \in 1..Len(t) : t[i] = c
    THEN CHOOSE i \in 1..Len(t) : t[i] = c
    ELSE 0

\* the UTF-16 code unit of each character (what > on strings compares)
CharCodeTable ==
    [c \in Chars |->
        IF IndexIn(Digits, c) > 0 THEN 47 + IndexIn(Digits, c)
        ELSE IF IndexIn(UpperCase, c) > 0 THEN 64 + IndexIn(UpperCase, c)
        ELSE IF IndexIn(LowerCase, c) > 0 THEN 96 + IndexIn(LowerCase, c)
        ELSE 45]

CharCode(c) == CharCodeTable[c]

\* the lower-case form of each character
LowerCaseTable ==
    [c \in Chars |->
        IF IndexIn(UpperCase, c) > 0
        THEN LowerCase[IndexIn(UpperCase, c)]
        ELSE c]

\* String.prototype.toLowerCase
toLowerCase(s) == [i \in 1..Len(s) |-> LowerCaseTable[s[i]]]

\* String.prototype.includes
includes(s, search) ==
    \E k \in 0..(Len(s) - Len(search)) :
        \A i \in 1..Len(search) : s[k + i] = search[i]

\* Number.prototype.toString of a natural
RECURSIVE NumToString(_)
NumToString(n) ==
    IF n < 10
    THEN <<Digits[n + 1]>>
    ELSE NumToString(n \div 10) \o <<Digits[(n % 10) + 1]>>

\* a > b on two strings: comparison by code units, a proper prefix is smaller
StrGreater(a, b) ==
    \E k \in 1..Len(a) :
        /\ \A i \in 1..(k - 1) : i <= Len(b) /\ a[i] = b[i]
        /\ \/ k > Len(b)
           \/ CharCode(a[k]) > CharCode(b[k])

----------------------------------------------------------------------------
(* Records *)

Electronics == <<"E","l","e","c","t","r","o","n","i","c","s">>
Furniture == <<"F","u","r","n","i","t","u","r","e">>
Lighting == <<"L","i","g","h","t","i","n","g">>
Accessories == <<"A","c","c","e","s","s","o","r","i","e","s">>

\* the options of the category <select>, after "All Categories"
PRODUCT_CATEGORIES == <<Electronics, Furniture, Lighting, Accessories>>

\* Names the catalogue draws from: letters only, two of them equal up to
\* case, one starting with a lower-case letter.
NameList ==
    << <<"D","e","s","k">>, <<"L","a","m","p">>, <<"c","h","a","i","r">>,
       <<"D","E","S","K">>, <<"L","a","m","p">> >>

PriceList == <<120, 40, 85, 40>>

StockList == <<3, 30, 0>>

Cyc(list, i) == list[((i - 1) % Len(list)) + 1]

\* the i-th product of the backend's collection (the fields the table reads)
Rec(i) ==
    [ id       |-> NumToString(i),
      name     |-> Cyc(NameList, i),
      category |-> Cyc(PRODUCT_CATEGORIES, i),
      price    |-> Cyc(PriceList, i),
      stock    |-> Cyc(StockList, i),
      sku      |-> <<"P","-">> \o NumToString(i) ]

Base(n) == [i \in 1..n |-> Rec(i)]

DropAt(s, k) == [i \in 1..(Len(s) - 1) |-> IF i < k THEN s[i] ELSE s[i + 1]]

\* the sizes of the collections: empty, one record, a full page, a page and
\* one record, two full pages, and the largest
CollectionSizes == {0, 1, PageSize, PageSize + 1, PageSize + PageSize, MaxRecords}

\* What useProducts can hand to the table: the first n products, or the
\* largest collection with its first or its last product deleted.
Collections ==
    { Base(n) : n \in CollectionSizes }
        \cup { DropAt(Base(MaxRecords), k) : k \in {1, MaxRecords} }

\* what the user types into the search box
TextQueries ==
    { <<>>, <<"a">>, <<"D","e">>, <<"3">>, <<"3","0">>, <<"z","z">> }

----------------------------------------------------------------------------
(* Columns *)

\* the column ids, in the order of the column definitions
AllLeafColumns == <<"name", "category", "price", "stock", "sku", "actions">>

\* columns made by columnHelper.accessor (the display column has no accessorFn)
HasAccessorFn(col) == col # "actions"

\* columns whose header is a button calling toggleSorting
SortableColumns == {"name", "price", "stock"}

NumberColumns == {"price", "stock"}

\* typeof row.getValue(col)
TypeOf(col) == IF col \in NumberColumns THEN "number" ELSE "string"

\* row.getValue(col)?.toString()
ValueToString(row, col) ==
    IF col \in NumberColumns
    THEN NumToString(row.original[col])
    ELSE row.original[col]

----------------------------------------------------------------------------
(* Row models *)

\* getCoreRowModel: one row per record, row.index its position in the data
getCoreRowModel ==
    [i \in 1..Len(products) |-> [index |-> i - 1, original |-> products[i]]]

\* Mutant: the search compares without lower-casing either side.
includesStringCaseSensitive(row, columnId, filterValue) ==
    includes(ValueToString(row, columnId), filterValue)

\* Mutant: the search looks for the cell's text inside the query.
includesStringSwapped(row, columnId, filterValue) ==
    includes(toLowerCase(filterValue), toLowerCase(ValueToString(row, columnId)))

\* filterFns.includesString
includesString(row, columnId, filterValue) ==
    includes(toLowerCase(ValueToString(row, columnId)), toLowerCase(filterValue))

\* filterFns.equals (the category column's filterFn)
equals(row, columnId, filterValue) ==
    row.original[columnId] = filterValue

\* testFalsey: the autoRemove test of equals and includesString
testFalsey(val) == val = <<>>

\* column.getCanGlobalFilter with the default getColumnCanGlobalFilter: the
\* first core row's value is a string or a number, and the column has an
\* accessor
getCanGlobalFilter(col) ==
    /\ Len(products) > 0
    /\ TypeOf(col) \in {"string", "number"}
    /\ HasAccessorFn(col)

globallyFilterableColumns ==
    SelectSeq(AllLeafColumns, getCanGlobalFilter)

\* the ids the filtered row model tests: the column filters' ids, then
\* "__global__" when the global filter is truthy
filterableIds ==
    [i \in 1..Len(columnFilters) |-> columnFilters[i].id]
        \o (IF globalFilter # <<>> /\ Len(globallyFilterableColumns) > 0
            THEN <<"__global__">> ELSE <<>>)

\* row.columnFilters[id], as the filtered row model flags each row: a
\* column filter's flag is its filterFn's verdict, the "__global__" flag is
\* set by the first globally filterable column that includes the search
RowFlag(row, id, globalCols) ==
    IF id = "__global__"
    THEN \E i \in 1..Len(globalCols) :
            includesString(row, globalCols[i], globalFilter)
    ELSE \A i \in 1..Len(columnFilters) :
            columnFilters[i].id = id =>
                equals(row, id, columnFilters[i].value)

\* filterRowsImpl: no tested flag is false
filterRowsImpl(row, ids, globalCols) ==
    \A i \in 1..Len(ids) : RowFlag(row, ids[i], globalCols)

\* filterRows: the rows that pass, in the order of the row model
filterRows(rows, ids, globalCols) ==
    SelectSeq(rows, LAMBDA row : filterRowsImpl(row, ids, globalCols))

\* getFilteredRowModel
getFilteredRowModel ==
    IF Len(products) = 0
          \/ (Len(columnFilters) = 0 /\ globalFilter = <<>>)
    THEN getCoreRowModel
    ELSE LET ids == filterableIds
             globalCols == globallyFilterableColumns
         IN  filterRows(getCoreRowModel, ids, globalCols)

----------------------------------------------------------------------------
(* Sorting *)

\* column.getCanSort: sorting is enabled by default on accessor columns
getCanSort(col) == HasAccessorFn(col)

\* column.getIsSorted: "asc", "desc", or "false" for the value false
getIsSorted(col) ==
    IF \E i \in 1..Len(sorting) : sorting[i].id = col
    THEN LET d == sorting[CHOOSE i \in 1..Len(sorting) : sorting[i].id = col]
         IN  IF d.desc THEN "desc" ELSE "asc"
    ELSE "false"

\* column.getAutoSortingFn, rows being the filtered rows: looks at the rows
\* after the first ten
\* (flatRows.slice(10)); a string value there selects the case-insensitive
\* text comparison, otherwise the basic comparison is used.  (A string with a
\* digit would select the alphanumeric comparison; the names here have none.)
getAutoSortingFn(rows, col) ==
    LET firstRows == SubSeq(rows, 11, Len(rows))
    IN  IF Len(firstRows) > 0 /\ TypeOf(col) = "string"
        THEN "text"
        ELSE "basic"

\* compareBasic on two strings
compareBasicStr(a, b) ==
    IF a = b THEN 0 ELSE IF StrGreater(a, b) THEN 1 ELSE -1

\* compareBasic on two numbers
compareBasicNum(a, b) ==
    IF a = b THEN 0 ELSE IF a > b THEN 1 ELSE -1

\* sortingFns.basic / sortingFns.text applied to a column of two rows
sortingFn(fn, rowA, rowB, col) ==
    IF TypeOf(col) = "number"
    THEN compareBasicNum(rowA.original[col], rowB.original[col])
    ELSE IF fn = "text"
    THEN compareBasicStr(toLowerCase(rowA.original[col]),
                         toLowerCase(rowB.original[col]))
    ELSE compareBasicStr(rowA.original[col], rowB.original[col])

\* Mutant: a descending sort is the ascending order read backwards, rows
\* with equal keys included.
RECURSIVE compareAscending(_, _, _, _, _)
compareAscending(entries, fns, rowA, rowB, i) ==
    IF i > Len(entries)
    THEN rowA.index - rowB.index
    ELSE LET sortInt == sortingFn(fns[i], rowA, rowB, entries[i].id)
         IN  IF sortInt # 0
             THEN sortInt
             ELSE compareAscending(entries, fns, rowA, rowB, i + 1)

compareRowsReversed(entries, fns, rowA, rowB, i) ==
    IF Len(entries) > 0 /\ entries[1].desc
    THEN 0 - compareAscending(entries, fns, rowA, rowB, i)
    ELSE compareAscending(entries, fns, rowA, rowB, i)

\* the comparator of sortData: the first sort entry that tells the rows
\* apart decides (negated when desc); rows no entry tells apart are ordered
\* by row.index
RECURSIVE compareRows(_, _, _, _, _)
compareRows(entries, fns, rowA, rowB, i) ==
    IF i > Len(entries)
    THEN rowA.index - rowB.index
    ELSE LET sortInt == sortingFn(fns[i], rowA, rowB, entries[i].id)
         IN  IF sortInt # 0
             THEN (IF entries[i].desc THEN 0 - sortInt ELSE sortInt)
             ELSE compareRows(entries, fns, rowA, rowB, i + 1)

\* one step of Array.prototype.sort under the comparator (a total order, so
\* every correct sort gives this result): row goes before the first element
\* it compares below
RECURSIVE insertRow(_, _, _, _)
insertRow(entries, fns, sorted, row) ==
    IF sorted = <<>>
    THEN <<row>>
    ELSE IF compareRows(entries, fns, row, Head(sorted), 1) < 0
    THEN <<row>> \o sorted
    ELSE <<Head(sorted)>> \o insertRow(entries, fns, Tail(sorted), row)

RECURSIVE sortData(_, _, _)
sortData(entries, fns, rows) ==
    IF rows = <<>>
    THEN <<>>
    ELSE insertRow(entries, fns,
                   sortData(entries, fns, SubSeq(rows, 1, Len(rows) - 1)),
                   rows[Len(rows)])

\* the sort entries whose column can sort
availableSorting ==
    SelectSeq(sorting, LAMBDA d : getCanSort(d.id))

\* Mutant: with no sort entry the rows are sorted by name.
getSortedRowModelByName ==
    LET rows == getFilteredRowModel
        entries == IF Len(sorting) = 0
                   THEN <<[id |-> "name", desc |-> FALSE]>>
                   ELSE availableSorting
        fns == [i \in 1..Len(entries) |->
                   getAutoSortingFn(rows, entries[i].id)]
    IN  sortData(entries, fns, rows)

\* getSortedRowModel
getSortedRowModel ==
    LET rows == getFilteredRowModel
    IN  IF Len(rows) = 0 \/ Len(sorting) = 0
        THEN rows
        ELSE LET entries == availableSorting
                 fns == [i \in 1..Len(entries) |->
                            getAutoSortingFn(rows, entries[i].id)]
             IN  sortData(entries, fns, rows)

\* Mutant: a column not yet sorted is added to the entries (multi-sort).
toggleSortingAppend(old, col, desc, multi) ==
    IF \E i \in 1..Len(old) : old[i].id = col
    THEN [i \in 1..Len(old) |->
            IF old[i].id = col THEN [id |-> col, desc |-> desc] ELSE old[i]]
    ELSE old \o <<[id |-> col, desc |-> desc]>>

\* column.toggleSorting(desc, multi) with a desc value given, as the header
\* buttons call it: in normal mode an entry for the same column, when it is
\* the last entry, is toggled to desc; anything else is replaced by the
\* single entry for this column
toggleSorting(old, col, desc, multi) ==
    LET existing == \E i \in 1..Len(old) : old[i].id = col
        lastIsCol == Len(old) > 0 /\ old[Len(old)].id = col
        sortAction ==
            IF Len(old) > 0 /\ multi
            THEN (IF existing THEN "toggle" ELSE "add")
            ELSE IF Len(old) > 0 /\ ~lastIsCol THEN "replace"
            ELSE IF existing THEN "toggle"
            ELSE "replace"
    IN  IF sortAction = "add"
        THEN old \o <<[id |-> col, desc |-> desc]>>
        ELSE IF sortAction = "toggle"
        THEN [i \in 1..Len(old) |->
                IF old[i].id = col THEN [id |-> col, desc |-> desc] ELSE old[i]]
        ELSE <<[id |-> col, desc |-> desc]>>

\* Mutant: the button asks for descending unless the column is descending,
\* the test on getIsSorted inverted.
onClickHeaderInverted(col) ==
    toggleSorting(sorting, col, getIsSorted(col) # "desc", FALSE)

\* the header button's onClick:
\* column.toggleSorting(column.getIsSorted() === 'asc')
onClickHeader(col) ==
    toggleSorting(sorting, col, getIsSorted(col) = "asc", FALSE)

----------------------------------------------------------------------------
(* Column filter of the category <select> *)

\* column.getFilterValue() || '' : the selected option
getFilterValue(col) ==
    IF \E i \in 1..Len(columnFilters) : columnFilters[i].id = col
    THEN columnFilters[CHOOSE i \in 1..Len(columnFilters) :
                            columnFilters[i].id = col].value
    ELSE <<>>

\* Mutant: the selected option is stored as it is, the empty one included.
setFilterValueStored(old, col, value) ==
    SelectSeq(old, LAMBDA d : d.id # col) \o <<[id |-> col, value |-> value]>>

\* column.setFilterValue(value), then the sweep of table.setColumnFilters;
\* the empty text stands for both '' and undefined (testFalsey holds of both)
setFilterValue(old, col, value) ==
    LET others == SelectSeq(old, LAMBDA d : d.id # col)
        previous == \E i \in 1..Len(old) : old[i].id = col
        newFilterObj == [id |-> col, value |-> value]
        updated ==
            IF testFalsey(value) THEN others
            ELSE IF previous
            THEN [i \in 1..Len(old) |->
                    IF old[i].id = col THEN newFilterObj ELSE old[i]]
            ELSE old \o <<newFilterObj>>
    IN  SelectSeq(updated, LAMBDA d : ~testFalsey(d.value))

----------------------------------------------------------------------------
(* Pagination *)

\* Array.prototype.slice(start, end)
slice(s, start, end) ==
    SubSeq(s, start + 1, IF end < Len(s) THEN end ELSE Len(s))

getPrePaginationRowModel == getSortedRowModel

\* Mutant: the page ends one row early.
paginateRowsShort(rows, pageIndex, pageSize) ==
    LET pageStart == pageSize * pageIndex
        pageEnd == pageStart + pageSize - 1
    IN  slice(rows, pageStart, pageEnd)

\* the page the pagination row model cuts out of the sorted rows
paginateRows(rows, pageIndex, pageSize) ==
    LET pageStart == pageSize * pageIndex
        pageEnd == pageStart + pageSize
    IN  slice(rows, pageStart, pageEnd)

\* getPaginationRowModel, which is table.getRowModel()
getRowModel ==
    paginateRows(getPrePaginationRowModel, pagination.pageIndex,
                 pagination.pageSize)

\* table.getRowCount
getRowCount == Len(getPrePaginationRowModel)

\* Math.ceil(rowCount / pageSize)
ceilDiv(n, d) == (n + d - 1) \div d

\* table.getPageCount (no pageCount option)
getPageCount == ceilDiv(getRowCount, pagination.pageSize)

\* table.getCanPreviousPage
getCanPreviousPage == pagination.pageIndex > 0

\* table.getCanNextPage
getCanNextPage ==
    IF getPageCount = 0 THEN FALSE
    ELSE pagination.pageIndex < getPageCount - 1

\* table.setPageIndex: Math.max(0, Math.min(pageIndex, maxPageIndex)), where
\* maxPageIndex is Number.MAX_SAFE_INTEGER when no pageCount option is given
setPageIndex(pageIndex) ==
    [pagination EXCEPT !.pageIndex = IF pageIndex < 0 THEN 0 ELSE pageIndex]

\* Mutant: the page index is clamped to the last page instead of reset.
resetPageIndexClamped ==
    setPageIndex(Min(pagination.pageIndex, Max(0, getPageCount - 1)))

\* table.resetPageIndex: back to the initial page index
resetPageIndex == setPageIndex(0)

----------------------------------------------------------------------------
(* The API client (api.ts) and the backend it talks to (json-server) *)

\* the value `undefined` of an optional id; no product id equals it
Undefined == <<"undefined">>

\* the price an edit of a product submits
EditedPrice == 99

\* what the form submits for a new product (the server adds the id)
NewProductInput == [Rec(2) EXCEPT !.id = <<>>]

\* what the form submits for an edit of the product it was filled from
EditedInput(product) == [product EXCEPT !.price = EditedPrice]

\* the collection of db.json when the application starts
InitialDb == Base(1)

\* the largest id the backend can come to hold
MaxId == Len(InitialDb) + MaxMutations

\* the position of the product with this id in a collection, or 0
FindIndex(collection, id) ==
    IF \E i \in 1..Len(collection) : collection[i].id = id
    THEN CHOOSE i \in 1..Len(collection) : collection[i].id = id
    ELSE 0

\* the id json-server gives to a posted product: one more than the largest
\* id in the collection
FreshId(collection) ==
    NumToString(1 + (CHOOSE n \in 0..MaxId :
        /\ n = 0 \/ FindIndex(collection, NumToString(n)) # 0
        /\ \A m \in (n + 1)..MaxId :
              FindIndex(collection, NumToString(m)) = 0))

statusText(status) ==
    CASE status = 200 -> "OK"
      [] status = 201 -> "Created"
      [] status = 404 -> "Not Found"
      [] OTHER -> "Internal Server Error"

Response(status, body) ==
    [status |-> status, statusText |-> statusText(status), body |-> body]

\* a failure of the server or of the network path to it
ServerError == Response(500, <<>>)

\* GET /products
GetProducts(collection) == Response(200, collection)

\* GET /products/:id
GetProduct(collection, id) ==
    IF FindIndex(collection, id) # 0
    THEN Response(200, collection[FindIndex(collection, id)])
    ELSE Response(404, <<>>)

\* POST /products: the collection afterwards
PostProduct(collection, data) ==
    Append(collection,
           [f \in DOMAIN data \cup {"id"} |->
               IF f = "id" THEN FreshId(collection) ELSE data[f]])

\* PATCH /products/:id: the collection afterwards
PatchProduct(collection, id, data) ==
    [i \in 1..Len(collection) |->
        IF collection[i].id = id
        THEN [data EXCEPT !.id = id]
        ELSE collection[i]]

\* DELETE /products/:id: the collection afterwards
DeleteProduct(collection, id) ==
    SelectSeq(collection, LAMBDA r : r.id # id)

\* response.ok
ok(response) == response.status >= 200 /\ response.status <= 299

\* Mutant: fetchApi returns the parsed body whatever the status.
fetchApiUnchecked(response) ==
    [threw |-> FALSE, value |-> response.body, error |-> <<>>]

\* fetchApi, given the response of fetch: throws
\* Error(`API Error: ${status} ${statusText}`) unless response.ok, else
\* returns response.json()
fetchApi(response) ==
    IF ~ok(response)
    THEN [threw |-> TRUE, value |-> <<>>,
          error |-> <<[status |-> response.status,
                       statusText |-> response.statusText]>>]
    ELSE [threw |-> FALSE, value |-> response.body, error |-> <<>>]

----------------------------------------------------------------------------
(* The query client (queryClient.ts) and the hooks (useProducts.ts).  A     *)
(* query of the cache is [status, data, error, isInvalidated, fetchStatus,  *)
(* fetchFailureCount] as in @tanstack/react-query (v5), together with the   *)
(* response of its request while that travels back: `response` is empty     *)
(* until the server has answered the request.  An optional value (data,     *)
(* error, response) is the empty sequence or the sequence of its one value. *)
(* Data stays fresh for staleTime (one minute) and unused queries are kept  *)
(* for gcTime (five minutes): the model covers the behaviour within those   *)
(* times, so data is stale only when invalidated or missing.                *)

\* queryKeys.products.all
productsAll == <<"products">>

\* queryKeys.products.detail(id)
productsDetail(id) == <<"products", id>>

\* defaultOptions.queries.retry
queriesRetry == IF NODE_ENV = "production" THEN 3 ELSE 0

\* Mutant: mutations are retried as queries are, and once in development.
mutationsRetryAsQueries == queriesRetry + 1

\* defaultOptions.mutations.retry
mutationsRetry == 0

\* a query as the cache builds it for a new key
newQuery ==
    [status |-> "pending", data |-> <<>>, error |-> <<>>,
     isInvalidated |-> FALSE, fetchStatus |-> "idle",
     fetchFailureCount |-> 0, response |-> <<>>]

\* the key useProducts observes on these pages, and the key and the
\* `enabled` option of useProduct(productId) on those
ObservesList(rt) == rt.page \in {"home", "list"}

ObservesDetail(rt) == rt.page \in {"detail", "edit"}

\* useProduct: queryKey: queryKeys.products.detail(id ?? '')
useProductKey(id) == productsDetail(IF id = Undefined THEN <<>> ELSE id)

\* Mutant: the single-product query is always enabled.
useProductEnabledAlways(id) == TRUE

\* useProduct: enabled: !!id
useProductEnabled(id) == id # Undefined /\ id # <<>>

\* the query has an observer on the current page
isObserved(key, rt) ==
    \/ ObservesList(rt) /\ key = productsAll
    \/ ObservesDetail(rt) /\ key = useProductKey(rt.productId)

\* query.isActive(): some observer of it is enabled
isActive(key, rt) ==
    \/ ObservesList(rt) /\ key = productsAll
    \/ /\ ObservesDetail(rt)
       /\ key = useProductKey(rt.productId)
       /\ useProductEnabled(rt.productId)

\* query.isStale() under staleTime: invalidated, or without data
isStale(q) == q.isInvalidated \/ q.data = <<>>

\* the 'fetch' action of a query: a request leaves
startFetch(q) ==
    [q EXCEPT !.fetchStatus = "fetching",
              !.fetchFailureCount = 0,
              !.response = <<>>,
              !.status = IF q.data = <<>> THEN "pending" ELSE q.status,
              !.error = IF q.data = <<>> THEN <<>> ELSE q.error]

\* query.fetch(options, {cancelRefetch}): a fetch already running is kept,
\* unless the query has data and cancelRefetch is set; then it is cancelled
\* silently and a new request leaves
fetch(q, cancelRefetch) ==
    IF q.fetchStatus # "idle" /\ ~(q.data # <<>> /\ cancelRefetch)
    THEN q
    ELSE startFetch(q)

\* an observer of key mounts: the query is built if the cache lacks it, and
\* fetched if the observer is enabled and the query is stale
\* (refetchOnMount: true)
mountObserver(cache, key, enabled) ==
    LET q == IF key \in DOMAIN cache THEN cache[key] ELSE newQuery
    IN  [k \in DOMAIN cache \cup {key} |->
            IF k = key
            THEN (IF enabled /\ isStale(q) THEN fetch(q, FALSE) ELSE q)
            ELSE cache[k]]

\* the hooks of the page of route rt mount
mountPage(cache, rt) ==
    IF ObservesList(rt)
    THEN mountObserver(cache, productsAll, TRUE)
    ELSE IF ObservesDetail(rt)
    THEN mountObserver(cache, useProductKey(rt.productId),
                       useProductEnabled(rt.productId))
    ELSE cache

\* partialMatchKey: the query's key starts with the filter's key
partialMatchKey(key, queryKey) ==
    /\ Len(key) >= Len(queryKey)
    /\ \A i \in 1..Len(queryKey) : key[i] = queryKey[i]

\* Mutant: invalidateQueries matches the filter's key exactly.
invalidateQueriesExact(cache, queryKey, rt) ==
    [k \in DOMAIN cache |->
        IF k = queryKey
        THEN (IF isActive(k, rt)
              THEN fetch([cache[k] EXCEPT !.isInvalidated = TRUE], TRUE)
              ELSE [cache[k] EXCEPT !.isInvalidated = TRUE])
        ELSE cache[k]]

\* Mutant: invalidateQueries marks the queries and refetches none
\* (refetchType: 'none').
invalidateQueriesNoRefetch(cache, queryKey, rt) ==
    [k \in DOMAIN cache |->
        IF partialMatchKey(k, queryKey)
        THEN [cache[k] EXCEPT !.isInvalidated = TRUE]
        ELSE cache[k]]

\* queryClient.invalidateQueries({ queryKey }): every query whose key starts
\* with queryKey is marked invalidated, and those that are active are
\* refetched (refetchType 'active', cancelRefetch true)
invalidateQueries(cache, queryKey, rt) ==
    [k \in DOMAIN cache |->
        IF partialMatchKey(k, queryKey)
        THEN (IF isActive(k, rt)
              THEN fetch([cache[k] EXCEPT !.isInvalidated = TRUE], TRUE)
              ELSE [cache[k] EXCEPT !.isInvalidated = TRUE])
        ELSE cache[k]]

----------------------------------------------------------------------------
(* The component's gestures.  Each action is one event handler together    *)
(* with the render it causes and the page reset that render queues: the    *)
(* core, filtered and sorted row models call table._autoResetPageIndex     *)
(* whenever they are recomputed (their data, filters or sorting changed),  *)
(* and the queued resetPageIndex runs before any further event.            *)

\* Mutant: autoResetPageIndex switched off.
autoResetPageIndexOff(recomputed) == pagination

\* table._autoResetPageIndex, on by default (no manualPagination): a
\* recomputed row model resets the page index
autoResetPageIndex(recomputed) ==
    IF recomputed THEN resetPageIndex ELSE pagination

Init ==
    /\ products \in Collections
    /\ sorting = <<>>
    /\ columnFilters = <<>>
    /\ globalFilter = <<>>
    /\ pagination = [pageIndex |-> 0, pageSize |-> PageSize]
    /\ lastOp = [op |-> "mount", from |-> 0, was |-> <<>>]
    /\ NODE_ENV = "development"
    /\ db = InitialDb
    /\ route = [page |-> "list", productId |-> <<>>]
    /\ queryCache = <<>>
    /\ mutationCache = <<>>
    /\ mutationId = 0
    /\ faults = 0
    /\ form = <<>>

\* the search box's onChange: setGlobalFilter(e.target.value)
SearchChange(q) ==
    /\ q # globalFilter
    /\ globalFilter' = q
    /\ pagination' = autoResetPageIndex(q # globalFilter)
    /\ lastOp' = [op |-> "search", from |-> pagination.pageIndex,
                  was |-> globalFilter]
    /\ UNCHANGED <<products, sorting, columnFilters>>
    /\ UNCHANGED appVars

\* the category select's onChange:
\* table.getColumn('category')?.setFilterValue(e.target.value || undefined)
CategoryChange(value) ==
    /\ value # getFilterValue("category")
    /\ columnFilters' = setFilterValue(columnFilters, "category", value)
    /\ pagination' = autoResetPageIndex(TRUE)
    /\ lastOp' = [op |-> "category", from |-> pagination.pageIndex, was |-> <<>>]
    /\ UNCHANGED <<products, sorting, globalFilter>>
    /\ UNCHANGED appVars

\* a click on the Name, Price or Stock header button
HeaderClick(col) ==
    /\ sorting' = onClickHeader(col)
    /\ pagination' = autoResetPageIndex(TRUE)
    /\ lastOp' = [op |-> "sort", from |-> pagination.pageIndex, was |-> sorting]
    /\ UNCHANGED <<products, columnFilters, globalFilter>>
    /\ UNCHANGED appVars

\* the next-page button: disabled unless getCanNextPage
NextPage ==
    /\ getCanNextPage
    /\ pagination' = setPageIndex(pagination.pageIndex + 1)
    /\ lastOp' = [op |-> "next", from |-> pagination.pageIndex, was |-> <<>>]
    /\ UNCHANGED <<products, sorting, columnFilters, globalFilter>>
    /\ UNCHANGED appVars

\* the previous-page button: disabled unless getCanPreviousPage
PreviousPage ==
    /\ getCanPreviousPage
    /\ pagination' = setPageIndex(pagination.pageIndex - 1)
    /\ lastOp' = [op |-> "previous", from |-> pagination.pageIndex, was |-> <<>>]
    /\ UNCHANGED <<products, sorting, columnFilters, globalFilter>>
    /\ UNCHANGED appVars

\* ProductsPage renders the table with another collection (a refetch
\* brought different data)
SetRecords(records) ==
    /\ records # products
    /\ products' = records
    /\ pagination' = autoResetPageIndex(records # products)
    /\ lastOp' = [op |-> "records", from |-> pagination.pageIndex, was |-> <<>>]
    /\ UNCHANGED <<sorting, columnFilters, globalFilter>>
    /\ UNCHANGED appVars

Next ==
    \/ \E q \in TextQueries : SearchChange(q)
    \/ \E i \in 0..Len(PRODUCT_CATEGORIES) :
          CategoryChange(IF i = 0 THEN <<>> ELSE PRODUCT_CATEGORIES[i])
    \/ \E col \in SortableColumns : HeaderClick(col)
    \/ NextPage
    \/ PreviousPage
    \/ \E records \in Collections : SetRecords(records)

Spec == Init /\ [][Next]_vars

----------------------------------------------------------------------------
(* The pages (routes) and their hooks.  A mutation of the mutation cache   *)
(* is [kind, id, data, page, status, error, failureCount, response,        *)
(* observed]: kind, id and data are the mutation function and its          *)
(* variables, page the page whose hook started it, response the answer of  *)
(* its request while that travels back, and observed tells that the hook   *)
(* that started it still follows it, so that the callbacks passed to       *)
(* mutate() will run.                                                      *)

\* the :productId parameters the model visits: a product of the initial
\* collection, and the two values of useProduct's parameter that disable
\* the query
ParamIds == {<<"1">>, <<>>, Undefined}

Routes ==
    { [page |-> p, productId |-> <<>>] : p \in {"home", "list", "new"} }
        \cup { [page |-> "detail", productId |-> id] : id \in ParamIds }
        \cup { [page |-> "edit", productId |-> <<"1">>] }

\* data ?? []
listData(cache) ==
    IF productsAll \in DOMAIN cache /\ cache[productsAll].data # <<>>
    THEN cache[productsAll].data[1]
    ELSE <<>>

\* useQuery's isLoading: isFetching && isPending
isLoading(q) == q.fetchStatus = "fetching" /\ q.status = "pending"

\* ProductsPage renders the table: not loading, no error
tableRendered(cache, rt) ==
    /\ rt.page = "list"
    /\ ~isLoading(cache[productsAll])
    /\ cache[productsAll].status # "error"

TableRendered == tableRendered(queryCache, route)

\* ProductTable mounts anew: its React state and the table's own state start
\* over
MountTable ==
    /\ sorting' = <<>>
    /\ columnFilters' = <<>>
    /\ globalFilter' = <<>>
    /\ pagination' = [pageIndex |-> 0, pageSize |-> PageSize]
    /\ lastOp' = [op |-> "mount", from |-> 0, was |-> <<>>]

\* the page renders again with the cache as it now is: a table that stays
\* mounted keeps its state and gets the list's data as another collection
\* would arrive (SetRecords); otherwise the table is unmounted or mounts anew
RenderTable ==
    /\ products' = listData(queryCache')
    /\ IF TableRendered /\ tableRendered(queryCache', route')
       THEN /\ pagination' = autoResetPageIndex(products' # products)
            /\ lastOp' = IF products' # products
                          THEN [op |-> "records",
                                from |-> pagination.pageIndex, was |-> <<>>]
                          ELSE lastOp
            /\ UNCHANGED <<sorting, columnFilters, globalFilter>>
       ELSE MountTable

\* ProductDetailPage and EditProductPage render the product: not loading,
\* no error, and the product is there
ProductRendered ==
    /\ route.page \in {"detail", "edit"}
    /\ LET q == queryCache[useProductKey(route.productId)]
       IN  ~isLoading(q) /\ q.status # "error" /\ q.data # <<>>

\* Mutant: EditProductPage without its error guard.
EditProductPageNoErrorGuard(q) ==
    IF isLoading(q) THEN "loading"
    ELSE IF q.data = <<>> THEN "notFound"
    ELSE "form"

\* what EditProductPage returns for the query of its product: the guards
\* if (isLoading), if (error), if (!product), then the page with the form
EditProductPage(q) ==
    IF isLoading(q) THEN "loading"
    ELSE IF q.error # <<>> THEN "error"
    ELSE IF q.data = <<>> THEN "notFound"
    ELSE "form"

\* mutation.isPending of the hook of the current page
isPending ==
    \E i \in 1..Len(mutationCache) :
        mutationCache[i].observed /\ mutationCache[i].status = "pending"

\* the hooks of a page leave with it: a mutation still running goes on
\* without observer; a settled one stays until the page after, then it is
\* collected
unmountMutations(mc) ==
    LET kept == SelectSeq(mc, LAMBDA m : m.observed \/ m.status = "pending")
    IN  [i \in 1..Len(kept) |-> [kept[i] EXCEPT !.observed = FALSE]]

\* mutation.isError of the hook of the current page
isError ==
    \E i \in 1..Len(mutationCache) :
        mutationCache[i].observed /\ mutationCache[i].status = "error"

\* mutation.mutate(variables) of a hook of the current page: the hook turns
\* from the mutation it observed before, if any, to the new one
mutate(mc, kind, id, data, page) ==
    Append([i \in 1..Len(mc) |-> [mc[i] EXCEPT !.observed = FALSE]],
           [kind |-> kind, id |-> id, data |-> data, page |-> page,
            status |-> "pending", error |-> <<>>, failureCount |-> 0,
            response |-> <<>>, observed |-> TRUE])

\* Mutant: the delete button does not ask.
confirmedAlways(answer) == TRUE

\* if (confirm(...)) { ... }
confirmed(answer) == answer

\* Mutant: every onSuccess passed to mutate() navigates to the list.
navigateOnSuccessToList(m, rt) ==
    IF m.page \in {"new", "detail", "edit"}
    THEN [page |-> "list", productId |-> <<>>]
    ELSE rt

\* Mutant: the update hook invalidates the list only, by its exact key.
onSuccessListOnly(cache, kind, id, rt) ==
    invalidateQueriesExact(cache, productsAll, rt)

\* the onSuccess option of useCreateProduct, useUpdateProduct and
\* useDeleteProduct
onSuccess(cache, kind, id, rt) ==
    IF kind = "update"
    THEN invalidateQueries(invalidateQueries(cache, productsAll, rt),
                           productsDetail(id), rt)
    ELSE invalidateQueries(cache, productsAll, rt)

\* where the onSuccess callback passed to mutate() navigates; the delete
\* button of the table passes none
navigateOnSuccess(m, rt) ==
    IF m.page = "new" \/ m.page = "detail"
    THEN [page |-> "list", productId |-> <<>>]
    ELSE IF m.page = "edit"
    THEN [page |-> "detail", productId |-> m.id]
    ELSE rt

\* the answer of the backend to the request of a mutation, and the
\* collection afterwards
mutationResponse(collection, m) ==
    IF m.kind = "create"
    THEN Response(201, PostProduct(collection, m.data[1])[Len(collection) + 1])
    ELSE IF FindIndex(collection, m.id) = 0
    THEN Response(404, <<>>)
    ELSE IF m.kind = "update"
    THEN Response(200, [m.data[1] EXCEPT !.id = m.id])
    ELSE Response(200, <<>>)

mutationEffect(collection, m) ==
    IF m.kind = "create"
    THEN PostProduct(collection, m.data[1])
    ELSE IF m.kind = "update"
    THEN PatchProduct(collection, m.id, m.data[1])
    ELSE DeleteProduct(collection, m.id)

\* the end of a query's fetch once its response has arrived: data on
\* success; on a throw another attempt while the failures are fewer than
\* `retry` and the query is still observed, else the error state
resolveFetch(q, observed) ==
    LET r == fetchApi(q.response[1])
    IN  IF ~r.threw
        THEN [q EXCEPT !.status = "success", !.data = <<r.value>>,
                       !.error = <<>>, !.isInvalidated = FALSE,
                       !.fetchStatus = "idle", !.fetchFailureCount = 0,
                       !.response = <<>>]
        ELSE IF q.fetchFailureCount < queriesRetry /\ observed
        THEN [q EXCEPT !.fetchFailureCount = @ + 1, !.response = <<>>]
        ELSE [q EXCEPT !.status = "error", !.error = r.error,
                       !.fetchStatus = "idle",
                       !.fetchFailureCount = @ + 1, !.response = <<>>]

----------------------------------------------------------------------------
(* The application: pages, queries, mutations and the backend *)

InitApp ==
    /\ NODE_ENV \in {"development", "production"}
    /\ db = InitialDb
    /\ route \in Routes
    /\ queryCache = mountPage(<<>>, route)
    /\ mutationCache = <<>>
    /\ mutationId = 0
    /\ faults = 0
    /\ form = <<>>
    /\ products = <<>>
    /\ sorting = <<>>
    /\ columnFilters = <<>>
    /\ globalFilter = <<>>
    /\ pagination = [pageIndex |-> 0, pageSize |-> PageSize]
    /\ lastOp = [op |-> "mount", from |-> 0, was |-> <<>>]

\* the user follows a link or enters a URL: the hooks of the page left
\* unmount, those of the page entered mount
Navigate(rt) ==
    /\ rt # route
    /\ route' = rt
    /\ queryCache' = mountPage(queryCache, rt)
    /\ mutationCache' = unmountMutations(mutationCache)
    /\ products' = listData(queryCache')
    /\ MountTable
    /\ UNCHANGED <<form, NODE_ENV, db, mutationId, faults>>

\* the backend answers the request of a query: the collection or the
\* product as it is now, or a failure
ServerAnswersQuery(key, fails) ==
    /\ key \in DOMAIN queryCache
    /\ queryCache[key].fetchStatus = "fetching"
    /\ queryCache[key].response = <<>>
    /\ fails => faults < MaxFaults
    /\ queryCache' = [queryCache EXCEPT ![key].response =
          << IF fails THEN ServerError
             ELSE IF key = productsAll THEN GetProducts(db)
             ELSE GetProduct(db, key[2]) >>]
    /\ faults' = IF fails THEN faults + 1 ELSE faults
    /\ UNCHANGED <<form, NODE_ENV, db, route, mutationCache, mutationId>>
    /\ UNCHANGED tableVars

\* the response of a query's request arrives; the pages render again, and
\* the table gets the list's data
QueryResponseArrives(key) ==
    /\ key \in DOMAIN queryCache
    /\ queryCache[key].fetchStatus = "fetching"
    /\ queryCache[key].response # <<>>
    /\ queryCache' = [queryCache EXCEPT ![key] =
          resolveFetch(queryCache[key], isObserved(key, route))]
    /\ UNCHANGED <<form, NODE_ENV, db, route, mutationCache, mutationId, faults>>
    /\ RenderTable

\* the form of NewProductPage submits: createMutation.mutate(data, ...)
SubmitCreate ==
    /\ route.page = "new"
    /\ ~isPending
    /\ mutationId < MaxMutations
    /\ mutationCache' =
          mutate(mutationCache, "create", <<>>, <<NewProductInput>>, "new")
    /\ mutationId' = IF mutationCache' # mutationCache
                     THEN mutationId + 1 ELSE mutationId
    /\ UNCHANGED <<form, NODE_ENV, db, route, queryCache, faults>>
    /\ UNCHANGED tableVars

\* the form of EditProductPage submits:
\* updateMutation.mutate({ id: productId, data }, ...)
SubmitUpdate ==
    /\ route.page = "edit"
    /\ ProductRendered
    /\ ~isPending
    /\ mutationId < MaxMutations
    /\ mutationCache' =
          mutate(mutationCache, "update", route.productId,
                 <<EditedInput(queryCache[useProductKey(route.productId)].data[1])>>,
                 "edit")
    /\ mutationId' = IF mutationCache' # mutationCache
                     THEN mutationId + 1 ELSE mutationId
    /\ UNCHANGED <<form, NODE_ENV, db, route, queryCache, faults>>
    /\ UNCHANGED tableVars

\* the delete button of a row of the table, with the user's answer to
\* confirm(): onDelete(row.original.id), that is deleteMutation.mutate(id)
DeleteClick(id, answer) ==
    /\ TableRendered
    /\ ~isPending
    /\ mutationId < MaxMutations
    /\ LET rows == getRowModel
       IN  \E i \in 1..Len(rows) : rows[i].original.id = id
    /\ mutationCache' =
          IF confirmed(answer)
          THEN mutate(mutationCache, "delete", id, <<>>, "list")
          ELSE mutationCache
    /\ lastOp' = [op |-> "delete", from |-> pagination.pageIndex,
                  was |-> <<answer>>]
    /\ mutationId' = IF mutationCache' # mutationCache
                     THEN mutationId + 1 ELSE mutationId
    /\ UNCHANGED <<form, NODE_ENV, db, route, queryCache, faults>>
    /\ UNCHANGED <<products, sorting, columnFilters, globalFilter, pagination>>

\* the delete button of ProductDetailPage (handleDelete), with the user's
\* answer to confirm()
DetailDelete(answer) ==
    /\ route.page = "detail"
    /\ ProductRendered
    /\ ~isPending
    /\ mutationId < MaxMutations
    /\ mutationCache' =
          IF confirmed(answer)
          THEN mutate(mutationCache, "delete", route.productId, <<>>, "detail")
          ELSE mutationCache
    /\ lastOp' = [op |-> "delete", from |-> pagination.pageIndex,
                  was |-> <<answer>>]
    /\ mutationId' = IF mutationCache' # mutationCache
                     THEN mutationId + 1 ELSE mutationId
    /\ UNCHANGED <<form, NODE_ENV, db, route, queryCache, faults>>
    /\ UNCHANGED <<products, sorting, columnFilters, globalFilter, pagination>>

\* the backend handles the request of a mutation, or fails
ServerAnswersMutation(i, fails) ==
    /\ i \in 1..Len(mutationCache)
    /\ mutationCache[i].status = "pending"
    /\ mutationCache[i].response = <<>>
    /\ fails => faults < MaxFaults
    /\ mutationCache' = [mutationCache EXCEPT ![i].response =
          << IF fails THEN ServerError
             ELSE mutationResponse(db, mutationCache[i]) >>]
    /\ db' = IF fails \/ ~ok(mutationResponse(db, mutationCache[i]))
             THEN db
             ELSE mutationEffect(db, mutationCache[i])
    /\ faults' = IF fails THEN faults + 1 ELSE faults
    /\ UNCHANGED <<form, NODE_ENV, route, queryCache, mutationId>>
    /\ UNCHANGED tableVars

\* the response of a mutation's request arrives: on a throw the request is
\* sent again while the failures are fewer than `retry`, else the mutation
\* ends in error; otherwise the hook's
\* onSuccess invalidates, then the onSuccess passed to mutate() navigates
\* if the hook is still mounted
MutationResponseArrives(i) ==
    /\ i \in 1..Len(mutationCache)
    /\ mutationCache[i].status = "pending"
    /\ mutationCache[i].response # <<>>
    /\ LET m == mutationCache[i]
           r == fetchApi(m.response[1])
           invalidated == onSuccess(queryCache, m.kind, m.id, route)
           target == IF m.observed THEN navigateOnSuccess(m, route) ELSE route
       IN  IF r.threw
           THEN /\ mutationCache' =
                      IF m.failureCount < mutationsRetry
                      THEN [mutationCache EXCEPT
                               ![i].failureCount = @ + 1,
                               ![i].response = <<>>]
                      ELSE [mutationCache EXCEPT
                               ![i].status = "error", ![i].error = r.error,
                               ![i].failureCount = @ + 1,
                               ![i].response = <<>>]
                /\ UNCHANGED <<route, queryCache>>
           ELSE /\ route' = target
                /\ queryCache' = IF target # route
                                 THEN mountPage(invalidated, target)
                                 ELSE invalidated
                /\ mutationCache' =
                      LET done == [mutationCache EXCEPT
                                      ![i].status = "success",
                                      ![i].response = <<>>]
                      IN  IF target # route THEN unmountMutations(done)
                          ELSE done
    /\ IF route' # route
       THEN products' = listData(queryCache') /\ MountTable
       ELSE UNCHANGED tableVars
    /\ form' = IF route' # route THEN <<>> ELSE form
    /\ UNCHANGED <<NODE_ENV, db, mutationId, faults>>

NextApp ==
    \/ \E rt \in Routes : Navigate(rt)
    \/ \E key \in DOMAIN queryCache, fails \in BOOLEAN :
          ServerAnswersQuery(key, fails)
    \/ \E key \in DOMAIN queryCache : QueryResponseArrives(key)
    \/ SubmitCreate
    \/ SubmitUpdate
    \/ \E i \in 1..Len(products), answer \in BOOLEAN :
          DeleteClick(products[i].id, answer)
    \/ \E answer \in BOOLEAN : DetailDelete(answer)
    \/ \E i \in 1..MaxMutations, fails \in BOOLEAN :
          ServerAnswersMutation(i, fails)
    \/ \E i \in 1..MaxMutations : MutationResponseArrives(i)

SpecApp == InitApp /\ [][NextApp]_vars

\* the keys a query of the cache can have
QueryKeys ==
    {productsAll} \cup {useProductKey(id) : id \in ParamIds}

\* The application with a backend that answers and a network that delivers:
\* a request of a query that waits for its answer is eventually answered
\* (with the data, unless the backend fails it first), and a response that
\* travels back eventually arrives and is processed by the query client.
SpecAppLive ==
    /\ SpecApp
    /\ \A key \in QueryKeys :
          /\ WF_vars(ServerAnswersQuery(key, FALSE))
          /\ WF_vars(QueryResponseArrives(key))

----------------------------------------------------------------------------
(* ProductsPage alone: the table's gestures together with the list query   *)
(* and the delete mutation of the page, over a backend of two pages of     *)
(* products.                                                               *)

\* what the user types, selects and clicks on this page
SearchSamples == {<<>>, <<"a">>}

CategorySamples == {<<>>, Electronics}

HeaderSamples == {"price"}

InitProductsPage ==
    /\ NODE_ENV \in {"development", "production"}
    /\ db = Base(PageSize + 1)
    /\ route = [page |-> "list", productId |-> <<>>]
    /\ queryCache = mountPage(<<>>, route)
    /\ mutationCache = <<>>
    /\ mutationId = 0
    /\ faults = 0
    /\ form = <<>>
    /\ products = <<>>
    /\ sorting = <<>>
    /\ columnFilters = <<>>
    /\ globalFilter = <<>>
    /\ pagination = [pageIndex |-> 0, pageSize |-> PageSize]
    /\ lastOp = [op |-> "mount", from |-> 0, was |-> <<>>]

NextProductsPage ==
    \/ \E q \in SearchSamples : TableRendered /\ SearchChange(q)
    \/ \E value \in CategorySamples : TableRendered /\ CategoryChange(value)
    \/ \E col \in HeaderSamples : TableRendered /\ HeaderClick(col)
    \/ TableRendered /\ NextPage
    \/ TableRendered /\ PreviousPage
    \/ \E i \in 1..Len(products), answer \in BOOLEAN :
          DeleteClick(products[i].id, answer)
    \/ \E fails \in BOOLEAN : ServerAnswersQuery(productsAll, fails)
    \/ QueryResponseArrives(productsAll)
    \/ \E fails \in BOOLEAN : ServerAnswersMutation(1, fails)
    \/ MutationResponseArrives(1)

SpecProductsPage == InitProductsPage /\ [][NextProductsPage]_vars

----------------------------------------------------------------------------
(* ProductForm on NewProductPage (create mode: no initialData).  The state *)
(* of useForm (@tanstack/react-form) is [values, isTouched, hasError,      *)
(* submissionAttempts]: isTouched and hasError are the meta of each field  *)
(* (hasError: meta.errors is not empty).  All validators are synchronous,  *)
(* so isValidating and isSubmitting are false whenever the user can act.   *)
(* The price is counted in cents: the schema's bounds 0.01 and 99999.99    *)
(* are 1 and 9999999, and an input has at most two decimals.               *)

\* the most submissions of the form
MaxAttempts == 2

Fields == {"name", "description", "price", "category", "stock", "sku"}

\* defaultValues of useForm without initialData
defaultValues ==
    [name |-> <<>>, description |-> <<>>, price |-> 0, category |-> <<>>,
     stock |-> 0, sku |-> <<>>]

\* the form as useForm builds it
useForm ==
    [values |-> defaultValues,
     isTouched |-> [f \in Fields |-> FALSE],
     hasError |-> [f \in Fields |-> FALSE],
     submissionAttempts |-> 0]

\* a text of n characters c
Repeat(c, n) == [i \in 1..n |-> c]

\* String.prototype.toUpperCase
toUpperCase(s) ==
    [i \in 1..Len(s) |->
        IF IndexIn(LowerCase, s[i]) > 0
        THEN UpperCase[IndexIn(LowerCase, s[i])]
        ELSE s[i]]

\* the digits a text starts with
LeadingDigits(s) ==
    LET n == CHOOSE k \in 0..Len(s) :
                /\ \A i \in 1..k : IndexIn(Digits, s[i]) > 0
                /\ k = Len(s) \/ IndexIn(Digits, s[k + 1]) = 0
    IN  SubSeq(s, 1, n)

\* the natural a text of digits denotes (0 for the empty text)
RECURSIVE ToNat(_)
ToNat(s) ==
    IF s = <<>>
    THEN 0
    ELSE ToNat(SubSeq(s, 1, Len(s) - 1)) * 10 + (IndexIn(Digits, s[Len(s)]) - 1)

\* a text without its leading minus sign
Unsigned(s) == IF s # <<>> /\ s[1] = "-" THEN Tail(s) ELSE s

Sign(s) == IF s # <<>> /\ s[1] = "-" THEN 0 - 1 ELSE 1

\* parseInt: the whole number the text starts with, in a sequence; the
\* empty sequence is NaN
parseInt(s) ==
    LET whole == LeadingDigits(Unsigned(s))
    IN  IF whole = <<>> THEN <<>> ELSE << Sign(s) * ToNat(whole) >>

\* parseFloat, in cents: the decimal number the text starts with, in a
\* sequence; the empty sequence is NaN
parseFloat(s) ==
    LET whole == LeadingDigits(Unsigned(s))
        rest == SubSeq(Unsigned(s), Len(whole) + 1, Len(Unsigned(s)))
        fraction == IF rest # <<>> /\ rest[1] = "."
                    THEN LeadingDigits(Tail(rest))
                    ELSE <<>>
        cents == SubSeq(fraction \o <<"0", "0">>, 1, 2)
    IN  IF whole = <<>> /\ fraction = <<>>
        THEN <<>>
        ELSE << Sign(s) * (ToNat(whole) * 100 + ToNat(cents)) >>

\* n || 0: NaN and 0 are falsy
orZero(n) == IF n = <<>> THEN 0 ELSE n[1]

\* the onChange handler of each input: what it passes to field.handleChange
\* for the text of the input (e.target.value)
onChange(field, text) ==
    CASE field = "price" -> orZero(parseFloat(text))
      [] field = "stock" -> orZero(parseInt(text))
      [] field = "sku" -> toUpperCase(text)
      [] OTHER -> text

\* productSchema.shape[field] accepts the value
productSchema(field, value) ==
    CASE field = "name" -> Len(value) >= 2 /\ Len(value) <= 100
      [] field = "description" -> Len(value) >= 10 /\ Len(value) <= 500
      [] field = "price" -> value >= 1 /\ value <= 9999999
      [] field = "category" ->
            \E i \in 1..Len(PRODUCT_CATEGORIES) : PRODUCT_CATEGORIES[i] = value
      [] field = "stock" -> value >= 0 /\ value <= 10000
      [] field = "sku" ->
            /\ Len(value) >= 3 /\ Len(value) <= 20
            /\ \A i \in 1..Len(value) :
                  \/ IndexIn(UpperCase, value[i]) > 0
                  \/ IndexIn(Digits, value[i]) > 0
                  \/ value[i] = "-"

\* Mutant: a submission runs the onSubmit validators only.
getSyncValidatorArrayOwn(cause) ==
    CASE cause = "change" -> {"onChange"}
      [] cause = "blur" -> {"onBlur"}
      [] cause = "submit" -> {"onSubmit"}

\* the validators a cause runs: a submission runs those of every cause
getSyncValidatorArray(cause) ==
    CASE cause = "change" -> {"onChange"}
      [] cause = "blur" -> {"onBlur"}
      [] cause = "submit" -> {"onChange", "onBlur", "onSubmit"}

\* field.validate(cause): every field of ProductForm has one validator,
\* validators.onChange, the field's shape of productSchema
validate(f, field, cause) ==
    IF "onChange" \in getSyncValidatorArray(cause)
    THEN [f EXCEPT !.hasError[field] = ~productSchema(field, f.values[field])]
    ELSE f

\* form.state.canSubmit
canSubmit(f) ==
    \/ f.submissionAttempts = 0 /\ \A field \in Fields : ~f.isTouched[field]
    \/ \A field \in Fields : ~f.hasError[field]

\* field.handleChange(value)
handleChange(f, field, value) ==
    validate([f EXCEPT !.values[field] = value, !.isTouched[field] = TRUE],
             field, "change")

\* field.handleBlur()
handleBlur(f, field) ==
    validate([f EXCEPT !.isTouched[field] = TRUE], field, "blur")

\* form.validateAllFields(cause): touches and validates every field
RECURSIVE validateFields(_, _, _)
validateFields(f, fields, cause) ==
    IF fields = {}
    THEN f
    ELSE LET field == CHOOSE x \in fields : TRUE
         IN  validateFields(
                 validate([f EXCEPT !.isTouched[field] = TRUE], field, cause),
                 fields \ {field}, cause)

validateAllFields(f, cause) == validateFields(f, Fields, cause)

\* form.handleSubmit(): the form afterwards, and whether the onSubmit option
\* was called with its values
handleSubmit(f) ==
    LET attempted == [f EXCEPT !.submissionAttempts = @ + 1]
        validated == validateAllFields(attempted, "submit")
    IN  IF ~canSubmit(attempted)
        THEN [form |-> attempted, onSubmit |-> FALSE]
        ELSE [form |-> validated,
              onSubmit |-> \A field \in Fields : ~validated.hasError[field]]

\* what the user types or selects in each input
Inputs(field) ==
    CASE field = "name" ->
            {Repeat("a", 1), Repeat("a", 2), Repeat("a", 101)}
      [] field = "description" ->
            {Repeat("d", 9), Repeat("d", 10), Repeat("d", 501)}
      [] field = "price" ->
            {<<>>, <<"0", ".", "0", "1">>,
             <<"1", "0", "0", "0", "0", "0">>}
      [] field = "category" -> {<<>>, Electronics}
      [] field = "stock" ->
            {<<"-", "1">>, <<"1", "0", "0", "0", "0", ".", "7">>,
             <<"1", "0", "0", "0", "1">>}
      [] field = "sku" ->
            {<<"a", "b">>, <<"a", "b", "-", "1">>, <<"a", "_", "b", "1">>}

InitForm ==
    /\ NODE_ENV \in {"development", "production"}
    /\ db = InitialDb
    /\ route = [page |-> "new", productId |-> <<>>]
    /\ queryCache = mountPage(<<>>, route)
    /\ mutationCache = <<>>
    /\ mutationId = 0
    /\ faults = 0
    /\ form = <<useForm>>
    /\ products = <<>>
    /\ sorting = <<>>
    /\ columnFilters = <<>>
    /\ globalFilter = <<>>
    /\ pagination = [pageIndex |-> 0, pageSize |-> PageSize]
    /\ lastOp = [op |-> "mount", from |-> 0, was |-> <<>>]

\* the user edits an input
FieldChange(field, text) ==
    /\ form # <<>>
    /\ form' = <<handleChange(form[1], field, onChange(field, text))>>
    /\ UNCHANGED <<NODE_ENV, db, route, queryCache, mutationCache,
                   mutationId, faults>>
    /\ UNCHANGED tableVars

\* the user leaves an input
FieldBlur(field) ==
    /\ form # <<>>
    /\ form' = <<handleBlur(form[1], field)>>
    /\ UNCHANGED <<NODE_ENV, db, route, queryCache, mutationCache,
                   mutationId, faults>>
    /\ UNCHANGED tableVars

\* Mutant: the submit button ignores the isSubmitting prop.
submitDisabledByFormOnly(f, isSubmitting) == ~canSubmit(f)

\* the submit button: disabled={!canSubmit || isSubmitting ||
\* formIsSubmitting}, where isSubmitting is the prop the page passes
\* (createMutation.isPending) and formIsSubmitting is false whenever the
\* user can act
submitDisabled(f, isSubmitting) == ~canSubmit(f) \/ isSubmitting

\* the user submits the form with its button, unless that is disabled:
\* form.handleSubmit(), whose onSubmit option calls the page's onSubmit,
\* that is createMutation.mutate(data, ...)
HandleSubmit ==
    /\ form # <<>>
    /\ ~submitDisabled(form[1], isPending)
    /\ form[1].submissionAttempts < MaxAttempts
    /\ LET submitted == handleSubmit(form[1])
       IN  /\ form' = <<submitted.form>>
           /\ mutationCache' =
                 IF submitted.onSubmit
                 THEN mutate(mutationCache, "create", <<>>,
                             <<submitted.form.values>>, "new")
                 ELSE mutationCache
    /\ mutationId' = IF mutationCache' # mutationCache
                     THEN mutationId + 1 ELSE mutationId
    /\ UNCHANGED <<NODE_ENV, db, route, queryCache, faults>>
    /\ UNCHANGED tableVars

NextForm ==
    \/ \E field \in Fields : \E text \in Inputs(field) : FieldChange(field, text)
    \/ \E field \in Fields : FieldBlur(field)
    \/ HandleSubmit
    \/ \E i \in 1..MaxAttempts, fails \in BOOLEAN :
          ServerAnswersMutation(i, fails)
    \/ \E i \in 1..MaxAttempts : MutationResponseArrives(i)

SpecForm == InitForm /\ [][NextForm]_vars

----------------------------------------------------------------------------
(* Properties *)

\* the records of a sequence of rows
Originals(rows) == [i \in 1..Len(rows) |-> rows[i].original]

SeqToSet(q) == {q[i] : i \in 1..Len(q)}

\* two characters that are the same letter in either case, or the same
\* character
SameIgnoringCase(c, d) ==
    \/ c = d
    \/ \E i \in 1..Len(UpperCase) :
          {c, d} = {UpperCase[i], LowerCase[i]}

\* query occurs in text as a case-insensitive substring
ContainsIgnoringCase(text, query) ==
    \E start \in 1..(Len(text) + 1) :
        /\ start + Len(query) - 1 <= Len(text)
        /\ \A i \in 1..Len(query) :
              SameIgnoringCase(text[start + i - 1], query[i])

\* The fields the search box matches: every displayed field of the record,
\* numbers in their decimal rendering.
DesignatedTextFields == {"name", "category", "price", "stock", "sku"}

FieldText(r, f) ==
    IF f \in {"price", "stock"} THEN NumToString(r[f]) ELSE r[f]

CategoryPredicateSet ==
    \E i \in 1..Len(columnFilters) : columnFilters[i].id = "category"

SelectedCategory ==
    columnFilters[CHOOSE i \in 1..Len(columnFilters) :
                     columnFilters[i].id = "category"].value

\* the filter of the specification, record by record
SpecKeeps(r) ==
    /\ \/ globalFilter = <<>>
       \/ \E f \in DesignatedTextFields :
             ContainsIgnoringCase(FieldText(r, f), globalFilter)
    /\ CategoryPredicateSet => r.category = SelectedCategory

\* C1: the filtered rows are exactly the records that the text query (empty,
\* or a case-insensitive substring of a designated text field) and the
\* category predicate (unset, or equal to the record's category) both keep.
C1_FilteredSetIsSpecFilter ==
    SeqToSet(Originals(getFilteredRowModel))
        = {r \in SeqToSet(products) : SpecKeeps(r)}

\* C1 witness: a search and a category are both set, they keep some records
\* and drop others, and a kept record matches the search only when case is
\* ignored.
C1_Witness ==
    /\ globalFilter # <<>>
    /\ CategoryPredicateSet
    /\ Len(getFilteredRowModel) > 0
    /\ Len(getFilteredRowModel) < Len(products)
    /\ \E i \in 1..Len(getFilteredRowModel) :
          \A f \in DesignatedTextFields :
              ~includes(FieldText(getFilteredRowModel[i].original, f),
                        globalFilter)

\* C2 (as claimed): in every state 0 <= pageIndex <= pageCount - 1.
C2_PageIndexWithinPageCount ==
    /\ 0 <= pagination.pageIndex
    /\ pagination.pageIndex <= getPageCount - 1

\* C3 (as claimed): pageCount = max(1, ceil(totalFilteredCount / pageSize)),
\* so a table with no filtered rows reports one page.
C3_PageCountAtLeastOne ==
    getPageCount
        = Max(1, ceilDiv(Len(getFilteredRowModel), pagination.pageSize))

\* C4: a change of the text filter or of the category filter leaves the
\* table on page 0, whatever the page before.
C4_FilterChangeResetsPage ==
    [][(globalFilter' # globalFilter \/ columnFilters' # columnFilters)
            => pagination'.pageIndex = 0]_vars

\* C4 witness: the search was changed on a later page, that page still
\* exists under the new filter, and the table is on page 0.
C4_Witness ==
    /\ lastOp.op = "search"
    /\ lastOp.from > 0
    /\ getPageCount > lastOp.from
    /\ pagination.pageIndex = 0

\* the last valid page index of the specification
SpecLastPage ==
    Max(1, ceilDiv(Len(getFilteredRowModel), pagination.pageSize)) - 1

\* C5 (as claimed): replacing the collection clamps the page index against
\* the new filtered count: it stays where it was unless that is past the
\* last valid page.
C5_ReplaceClampsPage ==
    [][products' # products
            => pagination'.pageIndex = Min(pagination.pageIndex, SpecLastPage')]_vars

\* C5 (amended): replacing the collection by a different one puts the table
\* on page 0, whatever page it was on and even when that page still exists;
\* an empty collection yields zero rows.
C5_ReplaceResetsPage ==
    [][products' # products
            => /\ pagination'.pageIndex = 0
               /\ (products' = <<>> => getRowModel' = <<>>)]_vars

\* C5 witness: the collection was replaced while the table was on a later
\* page, that page still exists, and the table is on page 0.
C5_Witness ==
    /\ lastOp.op = "records"
    /\ lastOp.from > 0
    /\ getPageCount > lastOp.from
    /\ pagination.pageIndex = 0

RECURSIVE ConcatPages(_, _, _, _)
ConcatPages(rows, pageSize, p, pageCount) ==
    IF p >= pageCount
    THEN <<>>
    ELSE paginateRows(rows, p, pageSize)
            \o ConcatPages(rows, pageSize, p + 1, pageCount)

\* C6: the pages 0..pageCount-1, one after the other, are the sorted
\* filtered rows: page p holds the rows at positions
\* [p*pageSize, p*pageSize+pageSize), and every filtered record is on
\* exactly one page.
C6_PagesCoverSortedRows ==
    LET rows == getPrePaginationRowModel
        size == pagination.pageSize
        all == ConcatPages(rows, size, 0, getPageCount)
    IN  /\ all = rows
        /\ \A p \in 0..(getPageCount - 1) :
              LET page == paginateRows(rows, p, size)
              IN  /\ Len(page) = Min(size, Len(rows) - p * size)
                  /\ \A k \in 1..Len(page) : page[k] = rows[p * size + k]
        /\ Len(all) = Len(getFilteredRowModel)
        /\ SeqToSet(Originals(all)) = SeqToSet(Originals(getFilteredRowModel))
        /\ \A i, j \in 1..Len(all) : i # j => all[i].original.id # all[j].original.id

\* C6 witness: a sorted table of three pages, showing its last, partly
\* filled page.
C6_Witness ==
    /\ Len(sorting) = 1
    /\ getPageCount = 3
    /\ pagination.pageIndex = 2
    /\ Len(getRowModel) > 0
    /\ Len(getRowModel) < pagination.pageSize

\* a <= b in code-unit order
RECURSIVE LexLeq(_, _)
LexLeq(a, b) ==
    IF a = <<>> THEN TRUE
    ELSE IF b = <<>> THEN FALSE
    ELSE IF CharCode(Head(a)) < CharCode(Head(b)) THEN TRUE
    ELSE IF CharCode(Head(a)) > CharCode(Head(b)) THEN FALSE
    ELSE LexLeq(Tail(a), Tail(b))

\* rows are in the order leq of their keys, reversed when desc
OrderedBy(rows, col, desc, leq(_, _)) ==
    \A i \in 1..(Len(rows) - 1) :
        IF desc
        THEN leq(rows[i + 1].original[col], rows[i].original[col])
        ELSE leq(rows[i].original[col], rows[i + 1].original[col])

InSuppliedOrder(rows) ==
    /\ \A i \in 1..Len(rows) :
          /\ rows[i].index + 1 \in 1..Len(products)
          /\ rows[i].original = products[rows[i].index + 1]
    /\ \A i, j \in 1..Len(rows) : i < j => rows[i].index < rows[j].index

\* C8: with no sort directive the rows, and the visible page of them, are in
\* the order of the supplied collection.
C8_UnsortedKeepsSuppliedOrder ==
    Len(sorting) = 0 =>
        /\ InSuppliedOrder(getPrePaginationRowModel)
        /\ InSuppliedOrder(getRowModel)

\* C8 witness: no sort, a search that removed a row between two visible
\* rows, and visible rows that are not in the order of their names.
C8_Witness ==
    /\ Len(sorting) = 0
    /\ globalFilter # <<>>
    /\ LET rows == getRowModel
       IN  /\ \E i \in 1..(Len(rows) - 1) : rows[i + 1].index > rows[i].index + 1
           /\ \E i \in 1..(Len(rows) - 1) :
                 StrGreater(rows[i].original.name, rows[i + 1].original.name)

SortNeverCleared == [][sorting # <<>> => sorting' # <<>>]_vars

C10_SingleSortDirective ==
    /\ Len(sorting) <= 1
    /\ \A i \in 1..Len(sorting) :
          /\ DOMAIN sorting[i] = {"id", "desc"}
          /\ sorting[i].id \in SortableColumns
          /\ sorting[i].desc \in BOOLEAN

\* C10 witness: the last click was on the header of a second column, and the
\* state holds the one directive for that column.
C10_Witness ==
    /\ lastOp.op = "sort"
    /\ lastOp.was # <<>>
    /\ Len(sorting) = 1
    /\ lastOp.was[1].id # sorting[1].id

\* the records the search box alone keeps
TextKeeps(r) ==
    \/ globalFilter = <<>>
    \/ \E f \in DesignatedTextFields :
          ContainsIgnoringCase(FieldText(r, f), globalFilter)

\* a stored category predicate always names a product category
CategoryPredicateIsCategory ==
    \A i \in 1..Len(columnFilters) :
        columnFilters[i].id = "category"
            => columnFilters[i].value \in SeqToSet(PRODUCT_CATEGORIES)

\* C11: choosing 'All Categories' leaves no category predicate in the filter
\* state (no empty or sentinel value is ever stored for it), and whenever the
\* predicate is absent the filtered rows are exactly the records the text
\* query alone keeps.
C11_AllCategoriesIsAbsentPredicate ==
    /\ [](CategoryPredicateIsCategory
            /\ (~CategoryPredicateSet =>
                  SeqToSet(Originals(getFilteredRowModel))
                      = {r \in SeqToSet(products) : TextKeeps(r)}))
    /\ [][CategoryChange(<<>>) => ~CategoryPredicateSet']_vars

\* C11 witness: 'All Categories' was just chosen in place of a category,
\* while a search is set that keeps some records and drops others.
C11_Witness ==
    /\ lastOp.op = "category"
    /\ ~CategoryPredicateSet
    /\ globalFilter # <<>>
    /\ Len(getFilteredRowModel) > 0
    /\ Len(getFilteredRowModel) < Len(products)

\* C12: the filtered rows are always records of the supplied collection, and
\* replacing the text query by one that contains it as a substring (records
\* and category predicate unchanged) never increases the number of filtered
\* rows.
C12_TighterQueryKeepsFewer ==
    /\ [](SeqToSet(Originals(getFilteredRowModel)) \subseteq SeqToSet(products))
    /\ [][(/\ globalFilter' # globalFilter
           /\ includes(globalFilter', globalFilter)
           /\ products' = products
           /\ columnFilters' = columnFilters)
             => Len(getFilteredRowModel') <= Len(getFilteredRowModel)]_vars

\* C12 witness: a non-empty query was just replaced by a longer one that
\* contains it, and the longer one keeps fewer rows than there are records
\* but at least one.
C12_Witness ==
    /\ lastOp.op = "search"
    /\ lastOp.was # <<>>
    /\ lastOp.was # globalFilter
    /\ includes(globalFilter, lastOp.was)
    /\ Len(getFilteredRowModel) > 0
    /\ Len(getFilteredRowModel) < Len(products)

\* the gestures of the table other than the delete button
GestureOps == {"search", "category", "sort", "next", "previous"}

\* C15: a search, category, sort or paging gesture changes neither the
\* backend's collection nor the query cache (no request leaves, no cached
\* collection changes) and starts no mutation; a mutation started on the
\* products page is a delete of a row of the visible page whose confirm()
\* the user accepted.
C15_TableGesturesStayLocal ==
    [][/\ (/\ lastOp'.op \in GestureOps
           /\ <<sorting, columnFilters, globalFilter, pagination>>'
                 # <<sorting, columnFilters, globalFilter, pagination>>)
          => /\ db' = db
             /\ queryCache' = queryCache
             /\ mutationCache' = mutationCache
       /\ Len(mutationCache') > Len(mutationCache)
          => /\ lastOp'.op = "delete"
             /\ lastOp'.was = <<TRUE>>
             /\ mutationCache'[Len(mutationCache')].kind = "delete"
             /\ \E i \in 1..Len(getRowModel) :
                   getRowModel[i].original.id
                       = mutationCache'[Len(mutationCache')].id]_vars

\* C15 witness: the table sits on its second page after a paging gesture
\* while the delete of a row is on its way to the backend.
C15_Witness ==
    /\ lastOp.op = "next"
    /\ pagination.pageIndex = 1
    /\ mutationCache # <<>>
    /\ mutationCache[1].kind = "delete"
    /\ mutationCache[1].status = "pending"

\* a mutation of the cache has succeeded
MutationSucceeded ==
    \E i \in 1..Len(mutationCache) : mutationCache[i].status = "success"

\* C16: once a create, update or delete mutation has succeeded and the list
\* is observed, the list's data eventually equals the backend's collection,
\* unless the list stops being observed or its refetch fails.
C16_ListEventuallyReflectsMutation ==
    (MutationSucceeded /\ ObservesList(route))
        ~> \/ listData(queryCache) = db
           \/ ~ObservesList(route)
           \/ queryCache[productsAll].status = "error"
           \/ faults > 0

\* the mutations of the cache
PendingMutations == {mutationCache[i] : i \in 1..Len(mutationCache)}

\* the step hands to a mutation like m its response (a step that only
\* unmounts the mutation's hook keeps the response)
ResponseArrives(m) ==
    /\ m.status = "pending"
    /\ m.response # <<>>
    /\ ~\E j \in 1..Len(mutationCache') :
            mutationCache'[j] \in {m, [m EXCEPT !.observed = FALSE]}

\* the step settles, as a success, a mutation of this kind for this id
SettlesSuccess(kind, id) ==
    \E m \in PendingMutations :
        /\ m.kind = kind
        /\ m.id = id
        /\ ResponseArrives(m)
        /\ ok(m.response[1])

\* the ids of the products a page can edit
EditableIds == { rt.productId : rt \in {r \in Routes : r.page = "edit"} }

\* C17: the step in which an update of product id succeeds leaves the
\* products list query and the detail query keyed by that id, if the cache
\* holds them, marked invalidated.
C17_UpdateInvalidatesListAndDetail ==
    [][\A id \in EditableIds :
          SettlesSuccess("update", id)
            => \A key \in {productsAll, productsDetail(id)} :
                  key \in DOMAIN queryCache
                      => queryCache'[key].isInvalidated]_vars

\* C17 witness: an update of product 1 has succeeded, and the list query
\* and the detail query of product 1 are both in the cache, invalidated.
C17_Witness ==
    /\ \E i \in 1..Len(mutationCache) :
          /\ mutationCache[i].kind = "update"
          /\ mutationCache[i].id = <<"1">>
          /\ mutationCache[i].status = "success"
    /\ productsAll \in DOMAIN queryCache
    /\ queryCache[productsAll].isInvalidated
    /\ productsDetail(<<"1">>) \in DOMAIN queryCache
    /\ queryCache[productsDetail(<<"1">>)].isInvalidated

\* the Error fetchApi throws for a response: its message carries the status
\* and the status text
ErrorOf(response) ==
    <<[status |-> response.status, statusText |-> response.statusText]>>

\* the step hands to the query of key a response, which is not OK
NonOkArrivesQuery(key) ==
    /\ key \in DOMAIN queryCache
    /\ queryCache[key].fetchStatus = "fetching"
    /\ queryCache[key].response # <<>>
    /\ ~ok(queryCache[key].response[1])
    /\ queryCache'[key].response = <<>>
    /\ mutationCache' = mutationCache
    /\ route' = route

\* the step hands to a mutation like m its response, which is not OK
NonOkArrivesMutation(m) == ResponseArrives(m) /\ ~ok(m.response[1])

\* the mutation like m has ended in the error state, with the Error of its
\* response
EndsInError(m) ==
    \E j \in 1..Len(mutationCache') :
        mutationCache'[j] = [m EXCEPT !.status = "error",
                                      !.error = ErrorOf(m.response[1]),
                                      !.failureCount = @ + 1,
                                      !.response = <<>>]

\* C19 as stated: a response that is not OK never becomes data, and the
\* fetch or the mutation that received one ends in the error state, not in
\* the success state.
C19_NonOkEndsInError ==
    [][/\ \A key \in QueryKeys :
            /\ NonOkArrivesQuery(key)
                  => queryCache'[key].data = queryCache[key].data
            /\ ( /\ key \in DOMAIN queryCache
                 /\ queryCache[key].fetchStatus = "fetching"
                 /\ queryCache[key].fetchFailureCount > 0
                 /\ queryCache'[key].fetchStatus = "idle" )
                  => queryCache'[key].status = "error"
       /\ \A m \in PendingMutations :
            NonOkArrivesMutation(m) => EndsInError(m)]_vars

\* C19 amended: a response that is not OK never becomes data and counts as
\* a failure; a mutation then ends in the error state with the Error of the
\* response; a query does so too unless it is still observed and has failed
\* fewer times than `retry` (3 in a production build, 0 otherwise), in which
\* case the request is sent again and the query stays as it was.
C19_NonOkFailsOrRetries ==
    [][/\ \A key \in QueryKeys :
            NonOkArrivesQuery(key)
              => LET q == queryCache[key]
                     after == queryCache'[key]
                 IN  /\ after.data = q.data
                     /\ after.fetchFailureCount = q.fetchFailureCount + 1
                     /\ IF /\ q.fetchFailureCount
                                < (IF NODE_ENV = "production" THEN 3 ELSE 0)
                           /\ isObserved(key, route)
                        THEN /\ after.fetchStatus = "fetching"
                             /\ after.status = q.status
                             /\ after.error = q.error
                        ELSE /\ after.fetchStatus = "idle"
                             /\ after.status = "error"
                             /\ after.error = ErrorOf(q.response[1])
       /\ \A m \in PendingMutations :
            NonOkArrivesMutation(m) => EndsInError(m)]_vars

\* C19 witness: in a production build the query of a product the backend
\* no longer has has ended in the error state on the fourth 404, after
\* three retries.
C19_Witness ==
    /\ NODE_ENV = "production"
    /\ \E key \in DOMAIN queryCache :
          /\ queryCache[key].status = "error"
          /\ queryCache[key].fetchStatus = "idle"
          /\ queryCache[key].error = ErrorOf(Response(404, <<>>))
          /\ queryCache[key].fetchFailureCount = 4

\* C20: the query of useProduct called with undefined or with the empty id
\* (both give the key ['products', '']) is never fetched: it stays pending
\* and idle, without data, error or request.
C20_NoFetchWithoutId ==
    useProductKey(Undefined) \in DOMAIN queryCache
        => LET q == queryCache[useProductKey(Undefined)]
           IN  /\ useProductKey(<<>>) = useProductKey(Undefined)
               /\ q.fetchStatus = "idle"
               /\ q.status = "pending"
               /\ q.data = <<>>
               /\ q.error = <<>>
               /\ q.response = <<>>
               /\ q.fetchFailureCount = 0

\* C20 witness: a page calls useProduct(undefined) and the query has been
\* invalidated by a mutation's success while the page observed it.
C20_Witness ==
    /\ route.page = "detail"
    /\ route.productId = Undefined
    /\ queryCache[useProductKey(Undefined)].isInvalidated
    /\ \E i \in 1..Len(mutationCache) :
          ~mutationCache[i].observed /\ mutationCache[i].status = "success"

\* the rules the form's values must satisfy, with the price in cents: name
\* of 2 to 100 characters, description of 10 to 500, price from 0.01 to
\* 99999.99, category one of PRODUCT_CATEGORIES, stock a whole number from
\* 0 to 10000, sku of 3 to 20 upper-case letters, digits and hyphens
SatisfiesRules(v) ==
    /\ Len(v.name) \in 2..100
    /\ Len(v.description) \in 10..500
    /\ v.price \in 1..9999999
    /\ v.category \in {Electronics, Furniture, Lighting, Accessories}
    /\ v.stock \in 0..10000
    /\ Len(v.sku) \in 3..20
    /\ \A i \in 1..Len(v.sku) :
          v.sku[i] \in {"A","B","C","D","E","F","G","H","I","J","K","L","M",
                        "N","O","P","Q","R","S","T","U","V","W","X","Y","Z",
                        "0","1","2","3","4","5","6","7","8","9","-"}

\* the step is a submission of the form
Submits ==
    /\ form # <<>>
    /\ form' # <<>>
    /\ form'[1].submissionAttempts = form[1].submissionAttempts + 1

\* C18: the form's onSubmit (which starts the page's create mutation) is
\* called only by a submission, only with the values the form then holds,
\* and only when these satisfy every rule of productSchema; a submission of
\* the untouched form with its defaults starts no mutation.
C18_OnSubmitOnlyWithValidValues ==
    [][/\ Len(mutationCache') > Len(mutationCache)
            => /\ Submits
               /\ SatisfiesRules(form[1].values)
               /\ mutationCache'[Len(mutationCache')].kind = "create"
               /\ mutationCache'[Len(mutationCache')].data
                     = <<form[1].values>>
       /\ (Submits /\ form[1] = useForm)
            => mutationCache' = mutationCache]_vars

\* C18 witness: a first submission was rejected, the user has corrected the
\* fields (the sku typed in lower case), and the second submission has
\* started the create mutation with the values of the form.
C18_Witness ==
    /\ form # <<>>
    /\ form[1].submissionAttempts = 2
    /\ Len(mutationCache) = 1
    /\ mutationCache[1].status = "pending"
    /\ mutationCache[1].data = <<form[1].values>>
    /\ form[1].values.sku = <<"A", "B", "-", "1">>
    /\ form[1].values.stock = 10000

\* the page that started the mutation like m is still mounted, renders its
\* form, and shows under it the message of the Error this mutation ended
\* with
ErrorShown(m) ==
    /\ route'.page = m.page
    /\ m.page = "edit" => ProductRendered'
    /\ isError'
    /\ \E j \in 1..Len(mutationCache') :
          /\ mutationCache'[j].observed
          /\ mutationCache'[j].status = "error"
          /\ mutationCache'[j].error = ErrorOf(m.response[1])

\* where a create and an update navigate to
TargetOf(m) ==
    IF m.kind = "create"
    THEN [page |-> "list", productId |-> <<>>]
    ELSE [page |-> "detail", productId |-> m.id]

\* the step changes no query of the cache
NoQueryTouched ==
    /\ DOMAIN queryCache' = DOMAIN queryCache
    /\ \A key \in DOMAIN queryCache : queryCache'[key] = queryCache[key]

\* C21 as stated: when the response of a create or an update arrives, the
\* route changes only if the response is OK, and then to the list after a
\* create and to the product's detail page after an update; if it is not
\* OK the route and every query stay as they were and the page shows the
\* mutation's error message.
C21_FailureShowsError ==
    [][\A m \in PendingMutations :
          (m.kind \in {"create", "update"} /\ ResponseArrives(m))
            => IF ok(m.response[1])
               THEN route' # route => route' = TargetOf(m)
               ELSE /\ route' = route
                    /\ NoQueryTouched
                    /\ ErrorShown(m)]_vars

\* C21 amended: as stated, except that the error message is shown only if
\* the user has not left the page that started the mutation (and that page
\* still renders its form); after a success the route changes exactly when
\* the user has not left that page.
C21_FailureShowsErrorIfMounted ==
    [][\A m \in PendingMutations :
          (m.kind \in {"create", "update"} /\ ResponseArrives(m))
            => IF ok(m.response[1])
               THEN route' = (IF m.observed THEN TargetOf(m) ELSE route)
               ELSE /\ route' = route
                    /\ NoQueryTouched
                    /\ EndsInError(m)
                    /\ (/\ m.observed
                        /\ m.page = "edit" => ProductRendered')
                          => ErrorShown(m)]_vars

\* C21 witness: the update the edit page started has failed; the page is
\* still the edit page, renders its form and shows the error.
C21_Witness ==
    /\ route.page = "edit"
    /\ ProductRendered
    /\ isError
    /\ \E i \in 1..Len(mutationCache) :
          /\ mutationCache[i].kind = "update"
          /\ mutationCache[i].observed
          /\ mutationCache[i].error = ErrorOf(ServerError)
    /\ ~queryCache[useProductKey(route.productId)].isInvalidated

\* the step is a click on a delete button whose confirmation the user
\* answers so (told from the click before it, if that was answered alike,
\* by nothing: two declined clicks in a row differ in nothing)
DeleteAnswered(answer) ==
    /\ lastOp'.op = "delete"
    /\ lastOp'.was = <<answer>>
    /\ ~(lastOp.op = "delete" /\ lastOp.was = <<answer>>)

\* the step starts a delete mutation
StartsDelete ==
    /\ Len(mutationCache') = Len(mutationCache) + 1
    /\ mutationCache'[Len(mutationCache')].kind = "delete"
    /\ mutationCache'[Len(mutationCache')].status = "pending"
    /\ mutationCache'[Len(mutationCache')].response = <<>>

\* C22: a delete mutation starts only in a click on a delete button whose
\* confirmation the user accepts; a click the user declines starts none
\* and leaves the backend, the query cache, the mutation cache, the table
\* state and the route as they were.
C22_DeleteOnlyAfterConfirm ==
    [][/\ StartsDelete => lastOp'.op = "delete" /\ lastOp'.was = <<TRUE>>
       /\ DeleteAnswered(FALSE)
            => /\ ~StartsDelete
               /\ UNCHANGED <<db, route, queryCache, mutationCache, mutationId>>
               /\ UNCHANGED <<products, sorting, columnFilters, globalFilter,
                              pagination>>]_vars

\* C22 witness: the user has declined the confirmation of the delete
\* button of the detail page of a product: the page still shows it, and no
\* mutation exists.
C22_Witness ==
    /\ lastOp.op = "delete"
    /\ lastOp.was = <<FALSE>>
    /\ route.page = "detail"
    /\ ProductRendered
    /\ mutationCache = <<>>
    /\ FindIndex(db, route.productId) # 0

\* the requests of the form's mutations that are in flight
InFlight ==
    {i \in 1..Len(mutationCache) : mutationCache[i].status = "pending"}

\* C23: while a mutation the form started is pending the submit button is
\* disabled, and at most one request of the form's mutations is in flight.
C23_OneRequestInFlight ==
    /\ Cardinality(InFlight) <= 1
    /\ (form # <<>> /\ InFlight # {}) => submitDisabled(form[1], isPending)

\* C23 witness: the first request of the form has failed, the user has
\* submitted again, and the second request is in flight while the button
\* is disabled.
C23_Witness ==
    /\ form # <<>>
    /\ Len(mutationCache) = 2
    /\ mutationCache[1].status = "error"
    /\ mutationCache[2].status = "pending"
    /\ mutationCache[2].response # <<>>
    /\ canSubmit(form[1])
    /\ submitDisabled(form[1], isPending)

\* C24: on the edit page the form is rendered exactly when the product
\* query is not loading, has no error and has data; a loading query shows
\* the loading state, otherwise a query in error shows the error state
\* (also when it has no data); and the form shown is filled from the
\* product the route names.
C24_FormOnlyWithProduct ==
    route.page = "edit"
        => LET q == queryCache[useProductKey(route.productId)]
               view == EditProductPage(q)
           IN  /\ (view = "form")
                     = (~isLoading(q) /\ q.status # "error" /\ q.data # <<>>)
               /\ isLoading(q) => view = "loading"
               /\ (~isLoading(q) /\ q.status = "error") => view = "error"
               /\ view = "form" => q.data[1].id = route.productId
               /\ ProductRendered = (view = "form")

\* C24 witness: the edit page shows the error state although the query
\* still holds the product: a refetch of it has failed.
C24_Witness ==
    /\ route.page = "edit"
    /\ queryCache[useProductKey(route.productId)].status = "error"
    /\ queryCache[useProductKey(route.productId)].data # <<>>
    /\ EditProductPage(queryCache[useProductKey(route.productId)]) = "error"

\* C25: every key of the cache extends queryKeys.products.all, and the
\* step in which a create, an update or a delete succeeds, which
\* invalidates with that key, leaves every query of the cache marked
\* invalidated: the list and each detail query.
C25_AllKeyInvalidatesEveryQuery ==
    [][/\ \A key \in DOMAIN queryCache : partialMatchKey(key, productsAll)
       /\ \A m \in PendingMutations :
            (ResponseArrives(m) /\ ok(m.response[1]))
              => \A key \in DOMAIN queryCache :
                    queryCache'[key].isInvalidated]_vars

\* C25 witness: a delete has succeeded while the cache held the list query
\* and two detail queries, and all three are marked invalidated.
C25_Witness ==
    /\ \E i \in 1..Len(mutationCache) :
          /\ mutationCache[i].kind = "delete"
          /\ mutationCache[i].status = "success"
    /\ DOMAIN queryCache
          = {productsAll, productsDetail(<<"1">>), productsDetail(<<>>)}
    /\ \A key \in DOMAIN queryCache : queryCache[key].isInvalidated

\* C26: a mutation has failed at most once, and one that has failed is in
\* the error state with the Error of that failure and no request in
\* flight: the one request its mutate call issued was never sent again.
C26_MutationsNotRetried ==
    \A i \in 1..Len(mutationCache) :
        LET m == mutationCache[i]
        IN  /\ m.failureCount \in {0, 1}
            /\ m.failureCount = 1
                  => /\ m.status = "error"
                     /\ m.error # <<>>
                     /\ m.response = <<>>
            /\ m.status = "error" => m.failureCount = 1
            /\ m.status = "success" => m.failureCount = 0 /\ m.response = <<>>

\* C26 witness: in a production build, where queries are retried three
\* times, a delete has failed once and is in the error state.
C26_Witness ==
    /\ NODE_ENV = "production"
    /\ \E i \in 1..Len(mutationCache) :
          /\ mutationCache[i].kind = "delete"
          /\ mutationCache[i].failureCount = 1
          /\ mutationCache[i].status = "error"
          /\ mutationCache[i].error = ErrorOf(ServerError)

====
